---- MODULE Spec2Model ----
(***************************************************************************)
(* Transcript acquisition of backend/main.py: extract_video_id, the        *)
(* caption parsers, _select_caption_track, fetch_transcript_with_ytdlp and *)
(* the /api/transcript handler get_transcript.                             *)
(*                                                                         *)
(* Python str values are sequences of one-character strings.  Optional     *)
(* values are records: None is [some |-> FALSE], a value v is              *)
(* [some |-> TRUE, v |-> v].  A call that may raise yields                 *)
(* [raised |-> TRUE] or [raised |-> FALSE, value |-> r].                   *)
(***************************************************************************)
EXTENDS Integers, Sequences, FiniteSets, TLC

VARIABLES
    pc,              \* position inside the handler / function under check
    url,             \* request.url
    video_id,        \* extract_video_id(request.url)
    transcript,      \* entry texts returned by api.fetch(video_id)
    primary_error,   \* str(primary_error) once api.fetch has raised
    info,            \* ydl.extract_info(...) result
    track,           \* _select_caption_track(info)
    payload,         \* _fetch_caption_url(track["url"]) result
    transcript_text, \* transcript_text of line 293, or of line 182
    fallback,        \* outcome of the call fetch_transcript_with_ytdlp(video_id)
    response,        \* TranscriptResponse or HTTPException leaving the handler
    calls            \* number of invocations of each external collaborator

vars == <<pc, url, video_id, transcript, primary_error, info, track, payload,
          transcript_text, fallback, response, calls>>

(***************************************************************************)
(* Bounds of the model.                                                    *)
(***************************************************************************)
MaxUrlChunks == 4
MaxMsgChunks == 2
MaxPayloadChunks == 4
MaxTracks == 2
MaxEntries == 2
MaxSegs == 2

(***************************************************************************)
(* Generic helpers.                                                        *)
(***************************************************************************)
None == [some |-> FALSE]

Some(x) == [some |-> TRUE, v |-> x]

Raised == [raised |-> TRUE]

Returned(x) == [raised |-> FALSE, value |-> x]

RECURSIVE Flatten(_)
Flatten(ss) == IF ss = <<>> THEN <<>> ELSE Head(ss) \o Flatten(Tail(ss))

\* All sequences of at most n elements of S.
SeqsUpTo(S, n) == UNION {[1..k -> S] : k \in 0..n}

\* Every string made of at most n chunks.
Concats(Chunks, n) == {Flatten(cs) : cs \in SeqsUpTo(Chunks, n)}

Min(S) == CHOOSE m \in S : \A k \in S : m <= k

Max(S) == CHOOSE m \in S : \A k \in S : k <= m

\* Python: needle in hay.
Contains(hay, needle) ==
    \E i \in 1..(Len(hay) - Len(needle) + 1) :
        SubSeq(hay, i, i + Len(needle) - 1) = needle

\* Python: s.startswith(prefix).
StartsWith(s, prefix) ==
    Len(s) >= Len(prefix) /\ SubSeq(s, 1, Len(prefix)) = prefix

\* Python: sep.join(parts).
RECURSIVE Join(_, _)
Join(sep, parts) ==
    IF parts = <<>> THEN <<>>
    ELSE IF Len(parts) = 1 THEN parts[1]
    ELSE parts[1] \o sep \o Join(sep, Tail(parts))

UpperLetters == <<"A","B","C","D","E","F","G","H","I","J","K","L","M",
                  "N","O","P","Q","R","S","T","U","V","W","X","Y","Z">>

LowerLetters == <<"a","b","c","d","e","f","g","h","i","j","k","l","m",
                  "n","o","p","q","r","s","t","u","v","w","x","y","z">>

Digits == {"0","1","2","3","4","5","6","7","8","9"}

\* Python: str.lower() on the ASCII letters.
LowerChar(c) ==
    IF \E i \in 1..26 : UpperLetters[i] = c
    THEN LowerLetters[CHOOSE i \in 1..26 : UpperLetters[i] = c]
    ELSE c

lower(s) == [i \in 1..Len(s) |-> LowerChar(s[i])]

\* Python: the characters removed by str.strip(), among the characters a
\* string of this module can hold (space, tab, line feed, carriage return,
\* form feed).
Whitespace == {" ", "\t", "\n", "\r", "\f"}

strip(s) ==
    LET keep == {i \in 1..Len(s) : s[i] \notin Whitespace}
    IN  IF keep = {} THEN <<>> ELSE SubSeq(s, Min(keep), Max(keep))

(***************************************************************************)
(* extract_video_id (main.py:80-92).                                       *)
(***************************************************************************)
MarkerV == <<"v","=">>

MarkerBe == <<"b","e","/">>

MarkerEmbed == <<"e","m","b","e","d","/">>

MarkerShorts == <<"s","h","o","r","t","s","/">>

\* The lookbehind markers of the four patterns, in the order of the list.
patterns == <<MarkerV, MarkerBe, MarkerEmbed, MarkerShorts>>

\* The character class [^&#?].
TokenChar(c) == c \notin {"&", "#", "?"}

\* Positions where (?<=marker)[^&#?]+ can start matching.
MatchStarts(marker, s) ==
    {i \in 1..Len(s) :
        /\ i > Len(marker)
        /\ SubSeq(s, i - Len(marker), i - 1) = marker
        /\ TokenChar(s[i])}

\* End of the greedy run [^&#?]+ that starts at i.
RunEnd(s, i) ==
    Max({j \in i..Len(s) : \A k \in i..j : TokenChar(s[k])})

\* re.search(pattern, url): the leftmost match, or None.
re_search(marker, s) ==
    IF MatchStarts(marker, s) = {} THEN None
    ELSE LET i == Min(MatchStarts(marker, s))
         IN  Some(SubSeq(s, i, RunEnd(s, i)))

\* Faulty variant: the patterns are tried in the reverse order.
extract_video_id_reversed(u) ==
    LET hits == {k \in 1..Len(patterns) : re_search(patterns[k], u).some}
    IN  IF hits = {} THEN None ELSE re_search(patterns[Max(hits)], u)

extract_video_id(u) ==
    LET hits == {k \in 1..Len(patterns) : re_search(patterns[k], u).some}
    IN  IF hits = {} THEN None ELSE re_search(patterns[Min(hits)], u)

(***************************************************************************)
(* Resolver specification: extract_video_id applied to bounded URLs.       *)
(***************************************************************************)
ABC123 == <<"A","B","C","1","2","3">>

UrlChunks ==
    { MarkerV, MarkerBe, MarkerEmbed, MarkerShorts, ABC123,
      <<"X","Y","Z">>, <<"&">>, <<"?">>, <<"/">>, <<"#">> }

ResolverUrls == Concats(UrlChunks, MaxUrlChunks)

InitResolver ==
    /\ pc = "resolve"
    /\ url \in ResolverUrls
    /\ video_id = None
    /\ transcript = None
    /\ primary_error = None
    /\ info = None
    /\ track = None
    /\ payload = <<>>
    /\ transcript_text = <<>>
    /\ fallback = None
    /\ response = None
    /\ calls = [primary |-> 0, listing |-> 0, fetch |-> 0]

ResolveOnly ==
    /\ pc = "resolve"
    /\ video_id' = extract_video_id(url)
    /\ pc' = "resolved"
    /\ UNCHANGED <<url, transcript, primary_error, info, track, payload,
                   transcript_text, fallback, response, calls>>

NextResolver == ResolveOnly

SpecResolver == InitResolver /\ [][NextResolver]_vars

(***************************************************************************)
(* Claims about extract_video_id, checked under SpecResolver.              *)
(***************************************************************************)
\* w occurs in s at position p.
OccursAt(s, p, w) ==
    /\ p >= 1
    /\ p + Len(w) - 1 <= Len(s)
    /\ SubSeq(s, p, p + Len(w) - 1) = w

\* Characters of an identifier: letters, digits, hyphen and underscore.
IdentifierChar(c) ==
    \/ \E i \in 1..26 : c = UpperLetters[i] \/ c = LowerLetters[i]
    \/ c \in Digits
    \/ c \in {"-", "_"}

\* w occurs in s and is followed by the end of s or a non-identifier character.
OccursBeforeBoundary(s, w) ==
    \E p \in 1..Len(s) :
        /\ OccursAt(s, p, w)
        /\ (p + Len(w) > Len(s) \/ ~IdentifierChar(s[p + Len(w)]))

\* The marker occurs at p and is followed by a character other than & # ?.
Matchable(s, p, marker) ==
    /\ OccursAt(s, p, marker)
    /\ p + Len(marker) <= Len(s)
    /\ s[p + Len(marker)] \notin {"&", "#", "?"}

\* marker+ABC123 occurs at p, ends at & # ? or the end of the URL, is the
\* leftmost matchable occurrence of its marker, and no marker earlier in the
\* pattern list is matchable anywhere.
FirstMatchIsABC123(s, k, p) ==
    LET w == patterns[k] \o ABC123
    IN  /\ OccursAt(s, p, w)
        /\ (p + Len(w) > Len(s) \/ s[p + Len(w)] \in {"&", "#", "?"})
        /\ \A q \in 1..(p - 1) : ~Matchable(s, q, patterns[k])
        /\ \A j \in 1..(k - 1) : \A q \in 1..Len(s) : ~Matchable(s, q, patterns[j])

\* C7 (as stated): every URL containing v=ABC123, be/ABC123, embed/ABC123 or
\* shorts/ABC123 followed by a non-identifier boundary resolves to ABC123,
\* whatever else the URL contains.
C7_AnyUrlWithMarker ==
    pc = "resolved" =>
        \A k \in 1..Len(patterns) :
            OccursBeforeBoundary(url, patterns[k] \o ABC123)
                => video_id = Some(ABC123)

\* C7 (amended): the URL resolves to ABC123 when marker+ABC123 ends at & # ? or
\* the end of the URL, is the leftmost matchable occurrence of its marker, and
\* no marker earlier in the order v=, be/, embed/, shorts/ is matchable.
C7_FirstMatchWins ==
    pc = "resolved" =>
        \A k \in 1..Len(patterns) : \A p \in 1..Len(url) :
            FirstMatchIsABC123(url, k, p) => video_id = Some(ABC123)

\* C7 witness: be/ABC123 in the middle of a URL, cut at ?, resolved to ABC123.
C7_Witness ==
    /\ pc = "resolved"
    /\ \E p \in 2..Len(url) :
        /\ FirstMatchIsABC123(url, 2, p)
        /\ p + Len(MarkerBe) + Len(ABC123) <= Len(url)
        /\ url[p + Len(MarkerBe) + Len(ABC123)] = "?"
    /\ video_id = Some(ABC123)

(***************************************************************************)
(* _parse_vtt_or_srt (main.py:94-108).                                     *)
(***************************************************************************)
\* Line boundaries of str.splitlines() among the modelled characters.
LineBoundaries == {"\n", "\r", "\f"}

\* Python: content.splitlines(); "\r\n" is one boundary, and a trailing
\* boundary does not open a further line.
RECURSIVE splitlines(_)
splitlines(s) ==
    IF s = <<>> THEN <<>>
    ELSE LET brs == {i \in 1..Len(s) : s[i] \in LineBoundaries}
         IN  IF brs = {} THEN <<s>>
             ELSE LET i == Min(brs)
                      next == IF s[i] = "\r" /\ i < Len(s) /\ s[i + 1] = "\n"
                              THEN i + 2 ELSE i + 1
                  IN  <<SubSeq(s, 1, i - 1)>>
                          \o splitlines(SubSeq(s, next, Len(s)))

WEBVTT == <<"W","E","B","V","T","T">>

Arrow == <<"-","-",">">>

\* re.match(r"^\d+$", stripped)
OnlyDigits(s) == s # <<>> /\ \A i \in 1..Len(s) : s[i] \in Digits

\* Faulty variant: the sequence-counter test of line 105 is missing.
SkipLine_keeps_counters(stripped) ==
    \/ stripped = <<>>
    \/ StartsWith(stripped, WEBVTT)
    \/ Contains(stripped, Arrow)

\* The four `continue` tests of the loop body, on the stripped line.
SkipLine(stripped) ==
    \/ stripped = <<>>
    \/ StartsWith(stripped, WEBVTT)
    \/ Contains(stripped, Arrow)
    \/ OnlyDigits(stripped)

\* The loop of lines 97-107: cleaned_lines after visiting `lines`.
RECURSIVE cleaned_lines(_)
cleaned_lines(lines) ==
    IF lines = <<>> THEN <<>>
    ELSE LET stripped == strip(Head(lines))
         IN  IF SkipLine(stripped) THEN cleaned_lines(Tail(lines))
             ELSE <<stripped>> \o cleaned_lines(Tail(lines))

_parse_vtt_or_srt(content) == Join(<<" ">>, cleaned_lines(splitlines(content)))

(***************************************************************************)
(* Line parser specification: _parse_vtt_or_srt applied to bounded         *)
(* payloads.                                                               *)
(***************************************************************************)
Hello == <<"H","e","l","l","o">>

World == <<"w","o","r","l","d">>

\* "WEBVTT\n\n1\n00:00:01.000 --> 00:00:02.000\nHello world"
VttExample ==
    WEBVTT \o <<"\n", "\n", "1", "\n">>
        \o <<"0","0",":","0","0",":","0","1",".","0","0","0">>
        \o <<" ">> \o Arrow \o <<" ">>
        \o <<"0","0",":","0","0",":","0","2",".","0","0","0">>
        \o <<"\n">> \o Hello \o <<" ">> \o World

VttChunks ==
    { WEBVTT, <<"1">>, Arrow, Hello, World, <<" ">>, <<"\n">>, <<"\r">>, <<"\f">> }

ParserPayloads == Concats(VttChunks, MaxPayloadChunks) \cup {VttExample}

InitParser ==
    /\ pc = "parse"
    /\ payload \in ParserPayloads
    /\ url = <<>>
    /\ video_id = None
    /\ transcript = None
    /\ primary_error = None
    /\ info = None
    /\ track = None
    /\ transcript_text = <<>>
    /\ fallback = None
    /\ response = None
    /\ calls = [primary |-> 0, listing |-> 0, fetch |-> 0]

ParseOnly ==
    /\ pc = "parse"
    /\ transcript_text' = _parse_vtt_or_srt(payload)
    /\ pc' = "parsed"
    /\ UNCHANGED <<url, video_id, transcript, primary_error, info, track,
                   payload, fallback, response, calls>>

NextParser == ParseOnly

SpecParser == InitParser /\ [][NextParser]_vars

(***************************************************************************)
(* Claims about _parse_vtt_or_srt, checked under SpecParser.               *)
(***************************************************************************)
\* The elements of items whose flag is FALSE, in order.
RECURSIVE Survivors(_, _)
Survivors(items, dropped) ==
    IF items = <<>> THEN <<>>
    ELSE (IF Head(dropped) THEN <<>> ELSE <<Head(items)>>)
             \o Survivors(Tail(items), Tail(dropped))

TrimmedLines(content) ==
    [i \in 1..Len(splitlines(content)) |-> strip(splitlines(content)[i])]

AllDigits(line) == Len(line) > 0 /\ {line[i] : i \in 1..Len(line)} \subseteq Digits

HasArrow(line) ==
    \E i \in 1..Len(line) - 2 :
        line[i] = "-" /\ line[i + 1] = "-" /\ line[i + 2] = ">"

BeginsWithWEBVTT(line) ==
    Len(line) >= 6 /\ [i \in 1..6 |-> line[i]] = WEBVTT

\* Dropped lines when only the header line (the first non-blank line of the
\* payload, carrying the WEBVTT signature) is removed for its WEBVTT text.
DroppedHeaderOnly(content) ==
    LET ls == TrimmedLines(content)
    IN  [i \in 1..Len(ls) |->
            \/ Len(ls[i]) = 0
            \/ (BeginsWithWEBVTT(ls[i]) /\ \A j \in 1..(i - 1) : Len(ls[j]) = 0)
            \/ HasArrow(ls[i])
            \/ AllDigits(ls[i])]

\* Dropped lines when every line that begins with WEBVTT is removed.
DroppedAnyWEBVTT(content) ==
    LET ls == TrimmedLines(content)
    IN  [i \in 1..Len(ls) |->
            \/ Len(ls[i]) = 0
            \/ BeginsWithWEBVTT(ls[i])
            \/ HasArrow(ls[i])
            \/ AllDigits(ls[i])]

\* C9 (as stated): the result is the trimmed lines joined by single spaces
\* where a line is dropped iff it is blank, is the WEBVTT header line, contains
\* the arrow or is all digits.
C9_DropsOnlyHeaderLine ==
    pc = "parsed" =>
        transcript_text =
            Join(<<" ">>, Survivors(TrimmedLines(payload), DroppedHeaderOnly(payload)))

\* C9 (amended): the result is the trimmed lines, in order, joined by single
\* spaces, where a line is dropped iff it is blank, begins with WEBVTT
\* (wherever it stands in the payload), contains the arrow or is all digits.
C9_LineFilter ==
    pc = "parsed" =>
        transcript_text =
            Join(<<" ">>, Survivors(TrimmedLines(payload), DroppedAnyWEBVTT(payload)))

\* C9 witness: the WebVTT example of the specification parsed to "Hello world".
C9_Witness ==
    /\ pc = "parsed"
    /\ payload = VttExample
    /\ transcript_text = Hello \o <<" ">> \o World

(***************************************************************************)
(* _select_caption_track (main.py:126-154).                                *)
(*                                                                         *)
(* A dict is the sequence of its <<key, value>> items in insertion order.  *)
(* A track is a record with an optional ext and an optional url; language  *)
(* tags are opaque strings, ext and url are character sequences.           *)
(***************************************************************************)
Json3 == <<"j","s","o","n","3">>

Srv3 == <<"s","r","v","3">>

Vtt == <<"v","t","t">>

Ttml == <<"t","t","m","l">>

Xml == <<"x","m","l">>

Srt == <<"s","r","t">>

preferred_langs == <<"en", "en-US", "en-GB">>

preferred_exts == <<Json3, Srv3, Vtt, Ttml, Xml, Srt>>

InSeq(x, seq) == \E i \in 1..Len(seq) : seq[i] = x

\* track.get("ext"); a missing key compares unequal to every listed format.
TrackExt(t) == IF "ext" \in DOMAIN t THEN t.ext ELSE <<>>

\* track.get("url"); a missing key is falsy like the empty string.
TrackUrl(t) == IF "url" \in DOMAIN t THEN t.url ELSE <<>>

\* info.get(source) or {}
SourceItems(i, source) == IF source \in DOMAIN i THEN i[source] ELSE <<>>

\* merged_tracks.setdefault(lang, []).extend(tracks) for every item (133-134).
RECURSIVE MergeItems(_, _)
MergeItems(merged, items) ==
    IF items = <<>> THEN merged
    ELSE LET lang == Head(items)[1]
             tracks == Head(items)[2]
             at == {i \in 1..Len(merged) : merged[i][1] = lang}
             next == IF at = {} THEN Append(merged, <<lang, tracks>>)
                     ELSE [merged EXCEPT
                             ![Min(at)] = <<lang, merged[Min(at)][2] \o tracks>>]
         IN  MergeItems(next, Tail(items))

\* The dict built by lines 131-134.
merged_tracks(i) ==
    MergeItems(MergeItems(<<>>, SourceItems(i, "subtitles")),
               SourceItems(i, "automatic_captions"))

\* merged_tracks.get(lang, [])
TracksOf(merged, lang) ==
    IF \E k \in 1..Len(merged) : merged[k][1] = lang
    THEN merged[CHOOSE k \in 1..Len(merged) : merged[k][1] = lang][2]
    ELSE <<>>

Keys(merged) == [k \in 1..Len(merged) |-> merged[k][1]]

\* Line 139.
language_order(merged) ==
    preferred_langs \o SelectSeq(Keys(merged), LAMBDA l : ~InSeq(l, preferred_langs))

\* Lines 145-152 for one language: the first (ext, track) pair of the nested
\* loops that has the ext and a url, else the first track with a url.
pick_in_language(tracks) ==
    LET hit(e) == {i \in 1..Len(tracks) :
                      TrackExt(tracks[i]) = preferred_exts[e] /\ TrackUrl(tracks[i]) # <<>>}
        exts == {e \in 1..Len(preferred_exts) : hit(e) # {}}
        any == {i \in 1..Len(tracks) : TrackUrl(tracks[i]) # <<>>}
    IN  IF exts # {} THEN Some(tracks[Min(hit(Min(exts)))])
        ELSE IF any # {} THEN Some(tracks[Min(any)])
        ELSE None

\* Faulty variant: formats are scanned across all languages before the language order
\* is consulted (format-major instead of language-major).
_select_caption_track_format_major(i) ==
    LET merged == merged_tracks(i)
        order == language_order(merged)
        pooled == Flatten([k \in 1..Len(order) |-> TracksOf(merged, order[k])])
    IN  pick_in_language(pooled)

_select_caption_track(i) ==
    LET merged == merged_tracks(i)
        order == language_order(merged)
        found == {k \in 1..Len(order) :
                     pick_in_language(TracksOf(merged, order[k])).some}
    IN  IF merged = <<>> THEN None
        ELSE IF found = {} THEN None
        ELSE pick_in_language(TracksOf(merged, order[Min(found)]))

(***************************************************************************)
(* Selector specification: _select_caption_track applied to bounded        *)
(* catalogs.  Every track with a url gets a locator of its own.            *)
(***************************************************************************)
Xyz == <<"x","y","z">>

\* <<ext, has a url>>
TrackShapes == {<<Json3, TRUE>>, <<Srt, TRUE>>, <<Xyz, TRUE>>, <<Json3, FALSE>>}

DigitOf == <<"1","2","3","4","5","6","7","8","9">>

\* The track of shape sh at position p of the k-th language of a source.
MakeTrack(sh, src, k, p) ==
    [ext |-> sh[1], url |-> IF sh[2] THEN <<src, DigitOf[k], DigitOf[p]>> ELSE <<>>]

MakeTracks(shapes, src, k) ==
    [p \in 1..Len(shapes) |-> MakeTrack(shapes[p], src, k, p)]

\* Enumeration orders of the languages of each source.
SubtitleOrders ==
    { <<>>, <<"fr">>, <<"fr", "en">>, <<"en", "fr">>, <<"fr", "de">>, <<"de", "fr">> }

AutoOrders == { <<>>, <<"en-GB">>, <<"fr">> }

\* The listings of a source: languages in one of the orders, each with at most
\* maxTracks tracks.
Listings(orders, maxTracks, src) ==
    UNION {{[k \in 1..Len(ls) |-> <<ls[k], MakeTracks(shs[k], src, k)>>] :
               shs \in [1..Len(ls) -> SeqsUpTo(TrackShapes, maxTracks)]} :
           ls \in orders}

\* The catalog { "fr": [vtt], "en": [srt, json3] } of the specification.
ExampleFrEn ==
    [subtitles |->
        << <<"fr", << [ext |-> Vtt, url |-> <<"s","1","1">>] >> >>,
           <<"en", << [ext |-> Srt, url |-> <<"s","2","1">>],
                      [ext |-> Json3, url |-> <<"s","2","2">>] >> >> >>,
     automatic_captions |-> <<>>]

\* The catalog { "de": [unknownformat] } of the specification.
ExampleDe ==
    [subtitles |-> << <<"de", << [ext |-> Xyz, url |-> <<"s","1","1">>] >> >> >>,
     automatic_captions |-> <<>>]

SelectorInfos ==
    {[subtitles |-> su, automatic_captions |-> au] :
        su \in Listings(SubtitleOrders, MaxTracks, "s"),
        au \in Listings(AutoOrders, 1, "a")}
    \cup {[subtitles |-> su] : su \in Listings({<<"de">>}, 1, "s")}
    \cup {ExampleFrEn, ExampleDe}

InitSelector ==
    /\ pc = "select"
    /\ info \in {Some(i) : i \in SelectorInfos}
    /\ url = <<>>
    /\ video_id = None
    /\ transcript = None
    /\ primary_error = None
    /\ track = None
    /\ payload = <<>>
    /\ transcript_text = <<>>
    /\ fallback = None
    /\ response = None
    /\ calls = [primary |-> 0, listing |-> 0, fetch |-> 0]

SelectOnly ==
    /\ pc = "select"
    /\ track' = _select_caption_track(info.v)
    /\ pc' = "selected"
    /\ UNCHANGED <<url, video_id, transcript, primary_error, info, payload,
                   transcript_text, fallback, response, calls>>

NextSelector == SelectOnly

SpecSelector == InitSelector /\ [][NextSelector]_vars

(***************************************************************************)
(* Claims about _select_caption_track, checked under SpecSelector.         *)
(***************************************************************************)
HasUrl(t) == "url" \in DOMAIN t /\ Len(t.url) > 0

\* Languages of one source, and the tracks the source lists for a language.
RefLangs(i, source) ==
    IF source \in DOMAIN i THEN [k \in 1..Len(i[source]) |-> i[source][k][1]] ELSE <<>>

RefTracks(i, source, lang) ==
    IF source \in DOMAIN i
    THEN Flatten([k \in 1..Len(i[source]) |->
                    IF i[source][k][1] = lang THEN i[source][k][2] ELSE <<>>])
    ELSE <<>>

\* Tracks of a language, human-authored and auto-generated pooled.
RefPooled(i, lang) ==
    RefTracks(i, "subtitles", lang) \o RefTracks(i, "automatic_captions", lang)

\* Catalog enumeration order: the languages of subtitles, then the languages
\* that only automatic_captions lists.
RefCatalogLangs(i) ==
    RefLangs(i, "subtitles")
        \o SelectSeq(RefLangs(i, "automatic_captions"),
                     LAMBDA l : ~InSeq(l, RefLangs(i, "subtitles")))

RefVisitOrder(i) ==
    <<"en", "en-US", "en-GB">>
        \o SelectSeq(RefCatalogLangs(i), LAMBDA l : l \notin {"en", "en-US", "en-GB"})

\* Position of the track's format in [json3, srv3, vtt, ttml, xml, srt], 7 if
\* the format is not listed.
RefRank(t) ==
    LET listed == <<Json3, Srv3, Vtt, Ttml, Xml, Srt>>
    IN  IF "ext" \in DOMAIN t /\ InSeq(t.ext, listed)
        THEN CHOOSE e \in 1..6 : listed[e] = t.ext
        ELSE 7

\* Among the tracks with a url: the earliest format, then the earliest position.
RefBest(tracks) ==
    LET withUrl == {p \in 1..Len(tracks) : HasUrl(tracks[p])}
    IN  tracks[CHOOSE p \in withUrl :
                  \A q \in withUrl :
                      \/ RefRank(tracks[p]) < RefRank(tracks[q])
                      \/ (RefRank(tracks[p]) = RefRank(tracks[q]) /\ p <= q)]

RefSelect(i) ==
    LET order == RefVisitOrder(i)
        usable == {k \in 1..Len(order) :
                      \E p \in 1..Len(RefPooled(i, order[k])) :
                          HasUrl(RefPooled(i, order[k])[p])}
    IN  IF usable = {} THEN None
        ELSE Some(RefBest(RefPooled(i, order[Min(usable)])))

\* C6: the selected track is the one of the reference policy: languages in the
\* order en, en-US, en-GB, then catalog order; in the first language with a
\* track that has a url, the earliest listed format (first such track), else
\* the first track with a url; nothing only if no track has a url.
C6_ReferencePolicy ==
    pc = "selected" => track = RefSelect(info.v)

\* C6 witness: { fr: [vtt], en: [srt, json3] } selected the en/json3 track.
C6_Witness ==
    /\ pc = "selected"
    /\ info = Some(ExampleFrEn)
    /\ track = Some([ext |-> Json3, url |-> <<"s","2","2">>])

(***************************************************************************)
(* _parse_json3_captions (main.py:110-119).                                *)
(*                                                                         *)
(* A JSON object is a record of its members; a member the code reads with  *)
(* .get may be absent.  json.dumps-like text of the modelled documents is  *)
(* produced by DumpDoc, and json.loads is its inverse on that text and     *)
(* raises on every other payload.                                          *)
(***************************************************************************)
Quote == "\""

Key(name) == <<Quote>> \o name \o <<Quote, ":">>

\* A JSON string literal; a line feed is written \n, a carriage return \r, a
\* form feed \f.
DumpString(t) ==
    <<Quote>>
        \o Flatten([i \in 1..Len(t) |->
                      IF t[i] = "\n" THEN <<"\\", "n">>
                      ELSE IF t[i] = "\r" THEN <<"\\", "r">>
                      ELSE IF t[i] = "\f" THEN <<"\\", "f">>
                      ELSE <<t[i]>>])
        \o <<Quote>>

DumpSeg(seg) ==
    IF "utf8" \in DOMAIN seg
    THEN <<"{">> \o Key(<<"u","t","f","8">>) \o DumpString(seg.utf8) \o <<"}">>
    ELSE <<"{">> \o Key(<<"t","O","f","f","s","e","t","M","s">>) \o <<"0", "}">>

DumpEvent(ev) ==
    IF "segs" \in DOMAIN ev
    THEN <<"{">> \o Key(<<"s","e","g","s">>) \o <<"[">>
             \o Join(<<",">>, [k \in 1..Len(ev.segs) |-> DumpSeg(ev.segs[k])])
             \o <<"]", "}">>
    ELSE <<"{">> \o Key(<<"t","S","t","a","r","t","M","s">>) \o <<"0", "}">>

DumpDoc(doc) ==
    IF "events" \in DOMAIN doc
    THEN <<"{">> \o Key(<<"e","v","e","n","t","s">>) \o <<"[">>
             \o Join(<<",">>, [k \in 1..Len(doc.events) |-> DumpEvent(doc.events[k])])
             \o <<"]", "}">>
    ELSE <<"{">> \o Key(<<"w","i","r","e","M","a","g","i","c">>) \o <<"0", "}">>

Amp == <<"&","a","m","p",";">>

SegTexts ==
    { Hello \o <<" ">>, World,
      <<"\f", "a", "\n", "b">> \o Amp \o <<"a","m","p",";">> }

JsonSegs == {[utf8 |-> t] : t \in SegTexts} \cup {[tOffsetMs |-> 0]}

JsonEvents == {[segs |-> ss] : ss \in SeqsUpTo(JsonSegs, MaxSegs)} \cup {[tStartMs |-> 0]}

JsonDocs == {[events |-> es] : es \in SeqsUpTo(JsonEvents, 1)} \cup {[wireMagic |-> 0]}

\* The text of every modelled document, with the document.
JsonTexts == {<<DumpDoc(d), d>> : d \in JsonDocs}

\* json.loads(payload)
json_loads(p) ==
    IF \E e \in JsonTexts : e[1] = p
    THEN Returned((CHOOSE e \in JsonTexts : e[1] = p)[2])
    ELSE Raised

\* event.get("segs", [])
SegsOf(ev) == IF "segs" \in DOMAIN ev THEN ev.segs ELSE <<>>

\* seg.get("utf8", "").strip()
SegText(seg) == strip(IF "utf8" \in DOMAIN seg THEN seg.utf8 ELSE <<>>)

\* The chunks appended by the loops of lines 114-118.
json3_chunks(data) ==
    LET events == IF "events" \in DOMAIN data THEN data.events ELSE <<>>
        texts == Flatten([e \in 1..Len(events) |->
                     [k \in 1..Len(SegsOf(events[e])) |-> SegText(SegsOf(events[e])[k])]])
    IN  SelectSeq(texts, LAMBDA t : t # <<>>)

_parse_json3_captions(p) ==
    LET data == json_loads(p)
    IN  IF data.raised THEN Raised
        ELSE Returned(Join(<<" ">>, json3_chunks(data.value)))

(***************************************************************************)
(* Post-processing and dispatch of fetch_transcript_with_ytdlp             *)
(* (main.py:175-183).                                                      *)
(***************************************************************************)
\* The character references that occur in the modelled texts.
Entities ==
    << <<Amp, <<"&">> >>,
       << <<"&","l","t",";">>, <<"<">> >>,
       << <<"&","#","1","0",";">>, <<"\n">> >>,
       << <<"&","#","1","3",";">>, <<"\r">> >> >>

\* html.unescape(s): one left-to-right pass; replaced text is not rescanned.
RECURSIVE html_unescape(_)
html_unescape(s) ==
    IF s = <<>> THEN <<>>
    ELSE LET m == {k \in 1..Len(Entities) : StartsWith(s, Entities[k][1])}
         IN  IF m # {}
             THEN Entities[Min(m)][2]
                      \o html_unescape(SubSeq(s, Len(Entities[Min(m)][1]) + 1, Len(s)))
             ELSE <<Head(s)>> \o html_unescape(Tail(s))

\* s.replace("\n", " ")
replace_newlines(s) == [i \in 1..Len(s) |-> IF s[i] = "\n" THEN " " ELSE s[i]]

\* Line 182.
clean_text(t) == strip(replace_newlines(html_unescape(t)))

\* Lines 175-183: parse the payload by the track's ext, clean the text, and
\* return it, or None when nothing is left.
parse_payload(tr, p) ==
    LET ext == lower(TrackExt(tr))
        parsed == IF ext \in {Json3, Srv3} THEN _parse_json3_captions(p)
                  ELSE Returned(_parse_vtt_or_srt(p))
    IN  IF parsed.raised THEN Raised
        ELSE IF clean_text(parsed.value) = <<>> THEN Returned(None)
        ELSE Returned(Some(clean_text(parsed.value)))

(***************************************************************************)
(* Responses and error classification of get_transcript (main.py:303-320). *)
(* A detail is the sequence of the pieces of its text.                     *)
(***************************************************************************)
TranscriptResponse(t, vid) ==
    [kind |-> "TranscriptResponse", transcript |-> t, video_id |-> vid]

HTTPException(code, text) ==
    [kind |-> "HTTPException", status_code |-> code, detail |-> text]

InvalidUrlDetail == <<"Invalid YouTube URL. Please check the URL format.">>

DisabledDetail == <<"Subtitles are disabled for this video.">>

UnavailableDetail == <<"Video not found or unavailable.">>

ProxyHint == "Use a proxy-enabled transcript service or residential proxy for production."

BlockedDetail ==
    <<"Transcript provider blocked your server IP (common on cloud hosts). ",
      "This request failed on both primary and fallback methods. ",
      ProxyHint>>

UnknownPrefix == "Error fetching transcript: "

StrDisabled == <<"d","i","s","a","b","l","e","d">>

StrUnavailable == <<"u","n","a","v","a","i","l","a","b","l","e">>

StrNotFound == <<"n","o","t"," ","f","o","u","n","d">>

StrRequestBlocked == <<"r","e","q","u","e","s","t","b","l","o","c","k","e","d">>

StrIpBlocked == <<"i","p","b","l","o","c","k","e","d">>

StrBlockingRequests ==
    <<"b","l","o","c","k","i","n","g"," ","r","e","q","u","e","s","t","s">>

StrYoutubeIsBlocking ==
    <<"y","o","u","t","u","b","e"," ","i","s"," ">> \o StrBlockingRequests

\* Faulty variant: the message is matched as it is, without lower().
classify_case_sensitive(error_msg) ==
    LET normalized_error == error_msg
    IN  IF Contains(normalized_error, StrDisabled)
        THEN HTTPException(400, DisabledDetail)
        ELSE IF \/ Contains(normalized_error, StrUnavailable)
                \/ Contains(normalized_error, StrNotFound)
        THEN HTTPException(404, UnavailableDetail)
        ELSE IF \/ Contains(normalized_error, StrRequestBlocked)
                \/ Contains(normalized_error, StrIpBlocked)
                \/ Contains(normalized_error, StrYoutubeIsBlocking)
        THEN HTTPException(503, BlockedDetail)
        ELSE HTTPException(500, <<UnknownPrefix>> \o error_msg)

\* Faulty variant: the unavailable test comes before the disabled test.
classify_unavailable_first(error_msg) ==
    LET normalized_error == lower(error_msg)
    IN  IF \/ Contains(normalized_error, StrUnavailable)
           \/ Contains(normalized_error, StrNotFound)
        THEN HTTPException(404, UnavailableDetail)
        ELSE IF Contains(normalized_error, StrDisabled)
        THEN HTTPException(400, DisabledDetail)
        ELSE IF \/ Contains(normalized_error, StrRequestBlocked)
                \/ Contains(normalized_error, StrIpBlocked)
                \/ Contains(normalized_error, StrYoutubeIsBlocking)
        THEN HTTPException(503, BlockedDetail)
        ELSE HTTPException(500, <<UnknownPrefix>> \o error_msg)

\* Lines 303-320.
classify(error_msg) ==
    LET normalized_error == lower(error_msg)
    IN  IF Contains(normalized_error, StrDisabled)
        THEN HTTPException(400, DisabledDetail)
        ELSE IF \/ Contains(normalized_error, StrUnavailable)
                \/ Contains(normalized_error, StrNotFound)
        THEN HTTPException(404, UnavailableDetail)
        ELSE IF \/ Contains(normalized_error, StrRequestBlocked)
                \/ Contains(normalized_error, StrIpBlocked)
                \/ Contains(normalized_error, StrYoutubeIsBlocking)
        THEN HTTPException(503, BlockedDetail)
        ELSE HTTPException(500, <<UnknownPrefix>> \o error_msg)

\* Faulty variant: the fallback text is ignored and the primary error always surfaces.
after_fallback_always_error(fb, vid, error_msg) == classify(error_msg)

\* Faulty variant: an exception of the fallback chain reaches the caller.
after_fallback_leaks(fb, vid, error_msg) ==
    IF fb.raised
    THEN HTTPException(500, <<UnknownPrefix, "fallback failed">>)
    ELSE IF fb.value.some THEN TranscriptResponse(fb.value.v, vid)
    ELSE classify(error_msg)

\* Lines 296-320: what leaves the handler once the fallback call has returned
\* fb or raised.
after_fallback(fb, vid, error_msg) ==
    IF ~fb.raised /\ fb.value.some
    THEN TranscriptResponse(fb.value.v, vid)
    ELSE classify(error_msg)

(***************************************************************************)
(* get_transcript (main.py:283-320) with fetch_transcript_with_ytdlp       *)
(* (main.py:156-183) inlined: one action per stretch of the handler        *)
(* between two calls of an external collaborator.                          *)
(***************************************************************************)
\* A resolvable URL and one without any marker.
OrchestratorUrls ==
    { <<"w","a","t","c","h","?">> \o MarkerV \o ABC123, <<"X","Y","Z">> }

EntryTexts == { Hello, <<"a", "\n", "b">>, Amp, <<>> }

PrimaryEntries == SeqsUpTo(EntryTexts, MaxEntries)

MsgChunks ==
    { <<"D","i","s","a","b","l","e","d">>, StrUnavailable,
      <<"N","o","t"," ","F","o","u","n","d">>,
      <<"R","e","q","u","e","s","t","B","l","o","c","k","e","d">>,
      <<"I","p","B","l","o","c","k","e","d">>,
      <<"Y","o","u","T","u","b","e"," ","i","s"," ">>, StrBlockingRequests }

PrimaryMessages == Concats(MsgChunks, MaxMsgChunks)

EmptyCatalog == [subtitles |-> <<>>, automatic_captions |-> <<>>]

NoUrlCatalog ==
    [subtitles |-> << <<"en", << [ext |-> Json3, url |-> <<>>], [ext |-> Vtt] >> >> >>]

UpperCaseExtCatalog ==
    [automatic_captions |->
        << <<"en", << [ext |-> <<"J","S","O","N","3">>, url |-> <<"a","1","1">>] >> >> >>]

\* What ydl.extract_info may return.
OrchestratorInfos ==
    { None, Some(EmptyCatalog), Some(NoUrlCatalog), Some(ExampleFrEn),
      Some(ExampleDe), Some(UpperCaseExtCatalog) }

TextPayloads ==
    { <<>>, VttExample, <<"1", "\n", "2">>,
      Hello \o <<"&","#","1","0",";">> \o World,
      Hello \o <<"\n">> \o Amp \o <<"l","t",";">>,
      <<"\f", " ">> \o World \o <<"\f">> }

OrchestratorPayloads == {DumpDoc(d) : d \in JsonDocs} \cup TextPayloads

Init ==
    /\ pc = "start"
    /\ url \in OrchestratorUrls
    /\ video_id = None
    /\ transcript = None
    /\ primary_error = None
    /\ info = None
    /\ track = None
    /\ payload = <<>>
    /\ transcript_text = <<>>
    /\ fallback = None
    /\ response = None
    /\ calls = [primary |-> 0, listing |-> 0, fetch |-> 0]

\* Lines 286-288.
Resolve ==
    /\ pc = "start"
    /\ video_id' = extract_video_id(url)
    /\ IF video_id'.some
       THEN pc' = "primary" /\ UNCHANGED response
       ELSE pc' = "done" /\ response' = HTTPException(400, InvalidUrlDetail)
    /\ UNCHANGED <<url, transcript, primary_error, info, track, payload,
                   transcript_text, fallback, calls>>

\* Faulty variant: after a successful primary fetch the handler still enters the
\* fallback.
PrimaryReturns_then_fallback(entries) ==
    /\ pc = "primary"
    /\ calls' = [calls EXCEPT !.primary = @ + 1]
    /\ transcript' = Some(entries)
    /\ transcript_text' = Join(<<" ">>, entries)
    /\ response' = TranscriptResponse(transcript_text', video_id.v)
    /\ pc' = "listing"
    /\ UNCHANGED <<url, video_id, primary_error, info, track, payload, fallback>>

\* Lines 291-294: api.fetch returns the entries.
PrimaryReturns(entries) ==
    /\ pc = "primary"
    /\ calls' = [calls EXCEPT !.primary = @ + 1]
    /\ transcript' = Some(entries)
    /\ transcript_text' = Join(<<" ">>, entries)
    /\ response' = TranscriptResponse(transcript_text', video_id.v)
    /\ pc' = "done"
    /\ UNCHANGED <<url, video_id, primary_error, info, track, payload, fallback>>

\* Lines 292-297, 158-168: api.fetch raises; the fallback is entered up to the
\* call of ydl.extract_info.
PrimaryRaises(msg) ==
    /\ pc = "primary"
    /\ calls' = [calls EXCEPT !.primary = @ + 1]
    /\ primary_error' = Some(msg)
    /\ pc' = "listing"
    /\ UNCHANGED <<url, video_id, transcript, info, track, payload,
                   transcript_text, fallback, response>>

\* Lines 168-174: extract_info returns; the track is selected; without a track
\* the fallback returns None and the primary error is classified.
ListingReturns(i) ==
    /\ pc = "listing"
    /\ calls' = [calls EXCEPT !.listing = @ + 1]
    /\ info' = i
    /\ track' = _select_caption_track(IF i.some THEN i.v ELSE EmptyCatalog)
    /\ IF track'.some
       THEN pc' = "fetch" /\ UNCHANGED <<fallback, response>>
       ELSE /\ pc' = "done"
            /\ fallback' = Returned(None)
            /\ response' = after_fallback(fallback', video_id.v, primary_error.v)
    /\ UNCHANGED <<url, video_id, transcript, primary_error, payload, transcript_text>>

\* Lines 168, 300-320: extract_info raises.
ListingRaises ==
    /\ pc = "listing"
    /\ calls' = [calls EXCEPT !.listing = @ + 1]
    /\ fallback' = Raised
    /\ response' = after_fallback(fallback', video_id.v, primary_error.v)
    /\ pc' = "done"
    /\ UNCHANGED <<url, video_id, transcript, primary_error, info, track, payload,
                   transcript_text>>

\* Lines 174-183, 298-320: the payload arrives, is parsed and cleaned.
FetchReturns(p) ==
    /\ pc = "fetch"
    /\ calls' = [calls EXCEPT !.fetch = @ + 1]
    /\ payload' = p
    /\ fallback' = parse_payload(track.v, p)
    /\ transcript_text' =
           IF ~fallback'.raised /\ fallback'.value.some THEN fallback'.value.v ELSE <<>>
    /\ response' = after_fallback(fallback', video_id.v, primary_error.v)
    /\ pc' = "done"
    /\ UNCHANGED <<url, video_id, transcript, primary_error, info, track>>

\* Faulty variant: a failed payload fetch is tried a second time.
FetchRaises_retry ==
    /\ pc = "fetch"
    /\ calls' = [calls EXCEPT !.fetch = @ + 1]
    /\ IF calls.fetch = 0
       THEN pc' = "fetch" /\ UNCHANGED <<fallback, response>>
       ELSE /\ fallback' = Raised
            /\ response' = after_fallback(fallback', video_id.v, primary_error.v)
            /\ pc' = "done"
    /\ UNCHANGED <<url, video_id, transcript, primary_error, info, track, payload,
                   transcript_text>>

\* Lines 174, 300-320: _fetch_caption_url raises.
FetchRaises ==
    /\ pc = "fetch"
    /\ calls' = [calls EXCEPT !.fetch = @ + 1]
    /\ fallback' = Raised
    /\ response' = after_fallback(fallback', video_id.v, primary_error.v)
    /\ pc' = "done"
    /\ UNCHANGED <<url, video_id, transcript, primary_error, info, track, payload,
                   transcript_text>>

Next ==
    \/ Resolve
    \/ \E entries \in PrimaryEntries : PrimaryReturns(entries)
    \/ \E msg \in PrimaryMessages : PrimaryRaises(msg)
    \/ \E i \in OrchestratorInfos : ListingReturns(i)
    \/ ListingRaises
    \/ \E p \in OrchestratorPayloads : FetchReturns(p)
    \/ FetchRaises

Spec == Init /\ [][Next]_vars

(***************************************************************************)
(* Claims about get_transcript, checked under Spec.                        *)
(***************************************************************************)
IsSuccess(r) == "transcript" \in DOMAIN r

IsError(r) == "status_code" \in DOMAIN r

\* api.fetch has returned / has raised in this call.
PrimarySucceeded == transcript.some

PrimaryFailed == primary_error.some

\* The fallback call has ended, and with a non-empty text.
FallbackEnded == "raised" \in DOMAIN fallback

FallbackHasText == FallbackEnded /\ ~fallback.raised /\ fallback.value.some

FallbackRaised == FallbackEnded /\ fallback.raised

\* Primary failed and the fallback ended without text.
TotalFailure == pc = "done" /\ PrimaryFailed /\ FallbackEnded /\ ~FallbackHasText

\* w occurs in msg when letter case is ignored.
ContainsIgnoringCase(msg, w) ==
    \E i \in 0..(Len(msg) - Len(w)) :
        \A j \in 1..Len(w) : LowerChar(msg[i + j]) = LowerChar(w[j])

MentionsDisabled(msg) == ContainsIgnoringCase(msg, StrDisabled)

MentionsUnavailable(msg) ==
    ContainsIgnoringCase(msg, StrUnavailable) \/ ContainsIgnoringCase(msg, StrNotFound)

MentionsBlocked(msg) ==
    \/ ContainsIgnoringCase(msg, StrRequestBlocked)
    \/ ContainsIgnoringCase(msg, StrIpBlocked)
    \/ ContainsIgnoringCase(msg, StrYoutubeIsBlocking)

\* C1: once the primary provider call has succeeded, the call has returned
\* success and neither the track listing nor the payload fetch was ever invoked.
C1_PrimarySuccessSkipsFallback ==
    PrimarySucceeded =>
        /\ calls.listing = 0
        /\ calls.fetch = 0
        /\ ~FallbackEnded
        /\ pc = "done"
        /\ IsSuccess(response)

\* C1 witness: a call that ended after a successful primary fetch of two entries.
C1_Witness ==
    /\ pc = "done"
    /\ PrimarySucceeded
    /\ Len(transcript.v) = 2
    /\ calls = [primary |-> 1, listing |-> 0, fetch |-> 0]
    /\ IsSuccess(response)

\* C2: when the primary failed and the fallback returned a non-empty text, the
\* call returns exactly that text as a success, whatever the primary message.
C2_FallbackTextReturned ==
    (pc = "done" /\ PrimaryFailed /\ FallbackHasText) =>
        response = [kind |-> "TranscriptResponse",
                    transcript |-> fallback.value.v,
                    video_id |-> video_id.v]

\* C2 witness: the primary said Disabled, the fallback produced "Hello world",
\* and the call succeeded with it.
C2_Witness ==
    /\ pc = "done"
    /\ PrimaryFailed
    /\ MentionsDisabled(primary_error.v)
    /\ FallbackHasText
    /\ IsSuccess(response)
    /\ response.transcript = Hello \o <<" ">> \o World

\* C3: when the fallback raised, selected no track or produced no text, the
\* outcome is the error classified from the primary message alone.
C3_FallbackFailureSwallowed ==
    TotalFailure =>
        /\ IsError(response)
        /\ response = classify(primary_error.v)

\* C3 witness: a json3 track whose payload is not JSON made the parser raise;
\* the caller got the 404 of the primary message.
C3_Witness ==
    /\ TotalFailure
    /\ FallbackRaised
    /\ calls.fetch = 1
    /\ payload = VttExample
    /\ primary_error.v = StrUnavailable
    /\ response.status_code = 404

\* C4: on total failure the kind is the earliest matching one of disabled (400),
\* unavailable / not found (404), requestblocked / ipblocked / youtube is
\* blocking requests (503), else unknown (500) with the raw message.
C4_ClassificationPriority ==
    TotalFailure =>
        LET m == primary_error.v
        IN  /\ MentionsDisabled(m) => response = HTTPException(400, DisabledDetail)
            /\ (~MentionsDisabled(m) /\ MentionsUnavailable(m))
                   => response = HTTPException(404, UnavailableDetail)
            /\ (~MentionsDisabled(m) /\ ~MentionsUnavailable(m) /\ MentionsBlocked(m))
                   => response = HTTPException(503, BlockedDetail)
            /\ (~MentionsDisabled(m) /\ ~MentionsUnavailable(m) /\ ~MentionsBlocked(m))
                   => response = HTTPException(500, <<UnknownPrefix>> \o m)
            /\ Cardinality({DisabledDetail, UnavailableDetail, BlockedDetail,
                            <<UnknownPrefix>> \o m}) = 4

\* C4 witness: a message naming both unavailable and disabled got the 400.
C4_Witness ==
    /\ TotalFailure
    /\ MentionsDisabled(primary_error.v)
    /\ MentionsUnavailable(primary_error.v)
    /\ response.status_code = 400

\* C5 (as stated): a primary message containing "blocking requests" with a
\* raising fallback yields the 503 with the proxy hint.
C5_BlockingRequestsIsBlocked ==
    (pc = "done" /\ PrimaryFailed /\ FallbackRaised
        /\ ContainsIgnoringCase(primary_error.v, StrBlockingRequests))
    => (IsError(response) /\ response.status_code = 503
            /\ InSeq(ProxyHint, response.detail))

\* C5 (amended): a primary message containing "youtube is blocking requests"
\* (any letter case) and none of disabled, unavailable, not found, with a
\* raising fallback, yields the 503 with the proxy hint.
C5_YoutubeIsBlockingIsBlocked ==
    (pc = "done" /\ PrimaryFailed /\ FallbackRaised
        /\ ContainsIgnoringCase(primary_error.v, StrYoutubeIsBlocking)
        /\ ~MentionsDisabled(primary_error.v)
        /\ ~MentionsUnavailable(primary_error.v))
    => (IsError(response) /\ response.status_code = 503
            /\ InSeq(ProxyHint, response.detail))

\* C5 witness: "YouTube is blocking requests" and a raising track listing.
C5_Witness ==
    /\ pc = "done"
    /\ FallbackRaised
    /\ calls.listing = 1
    /\ calls.fetch = 0
    /\ lower(primary_error.v) = StrYoutubeIsBlocking
    /\ response = HTTPException(503, BlockedDetail)

\* A TranscriptText has no line break and no character reference left.
NoLineBreak(t) == \A i \in 1..Len(t) : t[i] \notin {"\n", "\r"}

NoEntity(t) == \A k \in 1..Len(Entities) : ~Contains(t, Entities[k][1])

\* C8: every transcript returned on success, from either path, has no line
\* break and no un-decoded HTML entity.
C8_SuccessIsTranscriptText ==
    (pc = "done" /\ IsSuccess(response)) =>
        (NoLineBreak(response.transcript) /\ NoEntity(response.transcript))

\* C10: every collaborator is called at most once, the listing only after the
\* primary failed, the payload fetch only after a track was selected, and a
\* call has an outcome exactly when it has ended: a success or one error.
C10_LinearOneShot ==
    /\ calls.primary <= 1
    /\ calls.listing <= 1
    /\ calls.fetch <= 1
    /\ calls.listing > 0 => (calls.primary = 1 /\ PrimaryFailed)
    /\ calls.fetch > 0 => (calls.listing = 1 /\ track.some)
    /\ (pc = "done") <=> (IsSuccess(response) \/ IsError(response))
    /\ ~(IsSuccess(response) /\ IsError(response))
    /\ FallbackEnded => pc = "done"

\* C10 witness: the en/json3 track of a two-language catalog failed to parse;
\* the call ended in an error after one call of each collaborator.
C10_Witness ==
    /\ pc = "done"
    /\ info = Some(ExampleFrEn)
    /\ FallbackRaised
    /\ calls = [primary |-> 1, listing |-> 1, fetch |-> 1]
    /\ IsError(response)

====
